---- MODULE Spec2Model ----
(***************************************************************************)
(* Furniture catalog backend: the category hierarchy engine               *)
(* (CategoryStore and the category service), the product image gallery    *)
(* (ProductImageStore and the image service) and the product list         *)
(* (ProductStore and productList).                                         *)
(***************************************************************************)
EXTENDS Integers, Sequences, FiniteSets, TLC

\* ------------------------------------------------------------------ bounds

\* Highest id categoryCreate may assign in the model (the seed uses 1..4).
MaxId == 6

\* Successful store mutations explored by Spec (requests may rename).
MaxOps == 2

\* Successful store mutations explored by SpecTree (requests keep the name).
MaxTreeOps == 3

\* Highest image id a request of SpecImages may name (the seed uses 1..7).
MaxImageId == 9

\* Successful image store mutations explored by SpecImages.
MaxImageOps == 2

\* Successful image store mutations explored by SpecImageCap.
MaxCapOps == 7

\* Clock advances explored by SpecImageCap.
MaxTicks == 1

\* Highest id a product added in SpecList may get (the seed uses 1..10).
MaxProductId == 12

\* Highest page number a list request of SpecList may carry.
MaxPage == 3

\* Successful mutations in one behaviour of SpecIds.
MaxIdOps == 5

\* Pairs of concurrent requests in one behaviour of SpecConcurrent.
MaxPairs == 2

\* Longest name given to generateSlug in SpecSlug.
MaxNameLen == 4

\* Stored categories in SpecWalk (ids 1..MaxWalkIds; the next id is missing).
MaxWalkIds == 3

\* ------------------------------------------------------------- constants

MAX_HIERARCHY_LEVEL == 3
MAX_RECORDS == 1000
MAX_IMAGES_PER_PRODUCT == 10

\* null (parentId of a root) and undefined (an omitted excludeId).
Null == 0
Undefined == -1

OK == "OK"
VALIDATION_ERROR == "VALIDATION_ERROR"
BUSINESS_RULE_ERROR == "BUSINESS_RULE_ERROR"
NOT_FOUND == "NOT_FOUND"
INTERNAL_ERROR == "INTERNAL_ERROR"

\* ----------------------------------------------------------------- strings
\* A string is a sequence of one-character strings.

LowerAlnum ==
  {"a","b","c","d","e","f","g","h","i","j","k","l","m","n","o","p","q","r",
   "s","t","u","v","w","x","y","z","0","1","2","3","4","5","6","7","8","9"}

\* U+0301, the combining acute accent produced by NFD decomposition.
CombiningAcute == "U+0301"

\* U+00F3, o with acute accent (as in the seeded name of category 4).
OAcute == "U+00F3"

UpperLetters ==
  <<"A","B","C","D","E","F","G","H","I","J","K","L","M","N","O","P","Q","R",
    "S","T","U","V","W","X","Y","Z">>

LowerLetters ==
  <<"a","b","c","d","e","f","g","h","i","j","k","l","m","n","o","p","q","r",
    "s","t","u","v","w","x","y","z">>

\* The lower-case form of each capital letter.
LowerOf ==
  [c \in {UpperLetters[i] : i \in 1..Len(UpperLetters)} |->
     LowerLetters[CHOOSE i \in 1..Len(UpperLetters) : UpperLetters[i] = c]]

\* The lower-case form of one character; the strings of the model hold no
\* accented capital.
LowerChar(c) == IF c \in DOMAIN LowerOf THEN LowerOf[c] ELSE c

ToLowerCaseIdentity(s) == s

\* String.prototype.toLowerCase
ToLowerCase(s) == [i \in 1..Len(s) |-> LowerChar(s[i])]

\* String.prototype.normalize('NFD'): a precomposed letter becomes its base
\* letter followed by the combining mark.
RECURSIVE NormalizeNFD(_)
NormalizeNFD(s) ==
  IF s = <<>> THEN <<>>
  ELSE (IF Head(s) = OAcute THEN <<"o", CombiningAcute>> ELSE <<Head(s)>>)
       \o NormalizeNFD(Tail(s))

\* .replace(/[U+0300-U+036F]/g, ''): drops the combining marks.
StripCombining(s) == SelectSeq(s, LAMBDA c : c # CombiningAcute)

RECURSIVE ReplaceEach(_, _)
ReplaceEach(s, inRun) ==
  IF s = <<>> THEN <<>>
  ELSE (IF Head(s) \in LowerAlnum THEN <<Head(s)>> ELSE <<"-">>)
       \o ReplaceEach(Tail(s), inRun)

\* .replace(/[^a-z0-9]+/g, '-'): every maximal run of characters outside
\* [a-z0-9] becomes one hyphen.
RECURSIVE ReplaceRuns(_, _)
ReplaceRuns(s, inRun) ==
  IF s = <<>> THEN <<>>
  ELSE IF Head(s) \in LowerAlnum
       THEN <<Head(s)>> \o ReplaceRuns(Tail(s), FALSE)
       ELSE (IF inRun THEN <<>> ELSE <<"-">>) \o ReplaceRuns(Tail(s), TRUE)

RECURSIVE TrimLeft(_)
TrimLeft(s) ==
  IF s # <<>> /\ Head(s) = "-" THEN TrimLeft(Tail(s)) ELSE s

RECURSIVE TrimRight(_)
TrimRight(s) ==
  IF s # <<>> /\ s[Len(s)] = "-" THEN TrimRight(SubSeq(s, 1, Len(s) - 1)) ELSE s

\* .replace(/^-+|-+$/g, '')
TrimHyphens(s) == TrimRight(TrimLeft(s))

generateSlug(name) ==
  TrimHyphens(ReplaceRuns(StripCombining(NormalizeNFD(ToLowerCase(name))), FALSE))

\* ------------------------------------------------------------------- names

SalaDeEstar == <<"S","a","l","a"," ","d","e"," ","E","s","t","a","r">>
Quarto == <<"Q","u","a","r","t","o">>
Cozinha == <<"C","o","z","i","n","h","a">>
Escritorio == <<"E","s","c","r","i","t",OAcute,"r","i","o">>

\* Names a request may carry: a pair equal ignoring case and a name made of
\* symbols only.
Names == { <<"A","b">>, <<"A","B">>, <<"!","!">> }

\* -------------------------------------------------------------------- state

VARIABLES
  records,    \* CategoryStore.records: id -> CategoryRecord
  slugIndex,  \* CategoryStore.slugIndex: slug -> id
  currentId,  \* CategoryStore.currentId
  direct,     \* product associations made on each category id
  call,       \* the request being answered: operation and arguments
  result,     \* its outcome: OK or the error code
  ops,        \* number of successful store mutations so far
  products,        \* ProductStore.records added after the seed, in Map order
  productCurrentId, \* ProductStore.currentId
  images,          \* ProductImageStore.records, in Map (insertion) order
  imageCurrentId,  \* ProductImageStore.currentId
  now,             \* the clock read by new Date()
  response         \* the value a list operation returns

vars == <<records, slugIndex, currentId, direct, call, result, ops,
          products, productCurrentId, images, imageCurrentId, now, response>>

\* What the category operations never write.
catalogVars == <<products, productCurrentId, images, imageCurrentId, now, response>>

\* What the image operations never write.
categoryVars == <<records, slugIndex, currentId, direct>>

Idle == [op |-> "idle", id |-> Null, name |-> <<>>, parentId |-> Null]
NONE == "NONE"

\* ---------------------------------------------------------------- dates
\* A timestamp is the number of days since 2024-01-01 (2024 is a leap year).

DaysBeforeMonth == <<0, 31, 60, 91, 121, 152, 182, 213, 244, 274, 305, 335>>

\* new Date('2024-mm-dd').toISOString()
Date2024(month, day) == DaysBeforeMonth[month] + day - 1

\* The clock when the server starts: later than every seeded date.
StartTime == 366

SeedRecord(name, slug, count) ==
  [name |-> name, slug |-> slug, parentId |-> Null, level |-> 1,
   productCount |-> count, dateModified |-> Date2024(1, 1)]

seedInitialData ==
  <<SeedRecord(SalaDeEstar,
               <<"s","a","l","a","-","d","e","-","e","s","t","a","r">>, 4),
    SeedRecord(Quarto, <<"q","u","a","r","t","o">>, 2),
    SeedRecord(Cozinha, <<"c","o","z","i","n","h","a">>, 2),
    SeedRecord(Escritorio, <<"e","s","c","r","i","t","o","r","i","o">>, 2)>>

\* ProductStore.seedInitialData: a sample product without its id.
ProductSeed(name, description, category, date) ==
  [name |-> name, description |-> description, category |-> category,
   dateCreated |-> date]

sampleProducts ==
  <<ProductSeed(
      <<"S","o","f","U+00E1"," ","M","o","d","e","r","n","o"," ","3"," ","L",
        "u","g","a","r","e","s">>,
      <<"S","o","f","U+00E1"," ","c","o","n","f","o","r","t","U+00E1","v","e",
        "l"," ","e"," ","e","l","e","g","a","n","t","e",","," ","p","e","r",
        "f","e","i","t","o"," ","p","a","r","a"," ","s","a","l","a"," ","d",
        "e"," ","e","s","t","a","r"," ","m","o","d","e","r","n","a","."," ",
        "E","s","t","r","u","t","u","r","a"," ","e","m"," ","m","a","d","e",
        "i","r","a"," ","m","a","c","i","U+00E7","a"," ","c","o","m"," ","e",
        "s","t","o","f","a","d","o"," ","e","m"," ","t","e","c","i","d","o",
        " ","d","e"," ","a","l","t","a"," ","q","u","a","l","i","d","a","d",
        "e",".">>,
      SalaDeEstar, Date2024(1, 15)),
    ProductSeed(
      <<"M","e","s","a"," ","d","e"," ","J","a","n","t","a","r"," ","R",
        "U+00FA","s","t","i","c","a">>,
      <<"M","e","s","a"," ","d","e"," ","j","a","n","t","a","r"," ","e","m",
        " ","m","a","d","e","i","r","a"," ","m","a","c","i","U+00E7","a"," ",
        "c","o","m"," ","a","c","a","b","a","m","e","n","t","o"," ","r",
        "U+00FA","s","t","i","c","o","."," ","C","o","m","p","o","r","t","a",
        " ","a","t","U+00E9"," ","8"," ","p","e","s","s","o","a","s"," ","c",
        "o","n","f","o","r","t","a","v","e","l","m","e","n","t","e",".">>,
      Cozinha, Date2024(1, 20)),
    ProductSeed(
      <<"C","a","m","a"," ","B","o","x"," ","Q","u","e","e","n"," ","S","i",
        "z","e">>,
      <<"C","a","m","a"," ","b","o","x"," ","c","o","n","f","o","r","t",
        "U+00E1","v","e","l"," ","c","o","m"," ","c","o","l","c","h","U+00E3",
        "o"," ","o","r","t","o","p","U+00E9","d","i","c","o"," ","i","n","c",
        "l","u","U+00ED","d","o","."," ","B","a","s","e"," ","r","e","f","o",
        "r","U+00E7","a","d","a"," ","e"," ","c","a","b","e","c","e","i","r",
        "a"," ","e","s","t","o","f","a","d","a",".">>,
      Quarto, Date2024(2, 1)),
    ProductSeed(
      <<"E","s","c","r","i","v","a","n","i","n","h","a"," ","H","o","m","e",
        " ","O","f","f","i","c","e">>,
      <<"E","s","c","r","i","v","a","n","i","n","h","a"," ","c","o","m","p",
        "a","c","t","a"," ","i","d","e","a","l"," ","p","a","r","a"," ","h",
        "o","m","e"," ","o","f","f","i","c","e","."," ","D","e","s","i","g",
        "n"," ","m","i","n","i","m","a","l","i","s","t","a"," ","c","o","m",
        " ","g","a","v","e","t","a","s"," ","o","r","g","a","n","i","z","a",
        "d","o","r","a","s",".">>,
      Escritorio, Date2024(2, 10)),
    ProductSeed(
      <<"P","o","l","t","r","o","n","a"," ","D","e","c","o","r","a","t","i",
        "v","a">>,
      <<"P","o","l","t","r","o","n","a"," ","c","o","n","f","o","r","t",
        "U+00E1","v","e","l"," ","c","o","m"," ","d","e","s","i","g","n"," ",
        "c","o","n","t","e","m","p","o","r","U+00E2","n","e","o","."," ","I",
        "d","e","a","l"," ","p","a","r","a"," ","c","o","m","p","o","r"," ",
        "a","m","b","i","e","n","t","e","s"," ","a","c","o","n","c","h","e",
        "g","a","n","t","e","s",".">>,
      SalaDeEstar, Date2024(2, 15)),
    ProductSeed(
      <<"G","u","a","r","d","a","-","R","o","u","p","a"," ","6"," ","P","o",
        "r","t","a","s">>,
      <<"G","u","a","r","d","a","-","r","o","u","p","a"," ","e","s","p","a",
        "U+00E7","o","s","o"," ","c","o","m"," ","6"," ","p","o","r","t","a",
        "s"," ","e"," ","g","a","v","e","t","a","s"," ","i","n","t","e","r",
        "n","a","s","."," ","A","c","a","b","a","m","e","n","t","o"," ","e",
        "m"," ","l","a","m","i","n","a","d","o"," ","r","e","s","i","s","t",
        "e","n","t","e",".">>,
      Quarto, Date2024(2, 20)),
    ProductSeed(
      <<"R","a","c","k"," ","p","a","r","a"," ","T","V">>,
      <<"R","a","c","k"," ","m","o","d","e","r","n","o"," ","p","a","r","a",
        " ","T","V"," ","a","t","U+00E9"," ","6","5"," ","p","o","l","e","g",
        "a","d","a","s","."," ","C","o","m"," ","n","i","c","h","o","s"," ",
        "e"," ","g","a","v","e","t","a","s"," ","p","a","r","a"," ","o","r",
        "g","a","n","i","z","a","U+00E7","U+00E3","o",".">>,
      SalaDeEstar, Date2024(3, 1)),
    ProductSeed(
      <<"C","a","d","e","i","r","a"," ","d","e"," ","E","s","c","r","i","t",
        "U+00F3","r","i","o"," ","E","r","g","o","n","U+00F4","m","i","c","a">>,
      <<"C","a","d","e","i","r","a"," ","e","r","g","o","n","U+00F4","m","i",
        "c","a"," ","c","o","m"," ","a","j","u","s","t","e"," ","d","e"," ",
        "a","l","t","u","r","a"," ","e"," ","a","p","o","i","o"," ","l","o",
        "m","b","a","r","."," ","I","d","e","a","l"," ","p","a","r","a"," ",
        "l","o","n","g","a","s"," ","j","o","r","n","a","d","a","s"," ","d",
        "e"," ","t","r","a","b","a","l","h","o",".">>,
      Escritorio, Date2024(3, 5)),
    ProductSeed(
      <<"A","p","a","r","a","d","o","r"," ","D","e","c","o","r","a","t","i",
        "v","o">>,
      <<"A","p","a","r","a","d","o","r"," ","e","l","e","g","a","n","t","e",
        " ","p","a","r","a"," ","h","a","l","l"," ","d","e"," ","e","n","t",
        "r","a","d","a"," ","o","u"," ","s","a","l","a"," ","d","e"," ","j",
        "a","n","t","a","r","."," ","C","o","m"," ","e","s","p","e","l","h",
        "o"," ","e"," ","g","a","v","e","t","a","s",".">>,
      SalaDeEstar, Date2024(3, 10)),
    ProductSeed(
      <<"C","o","n","j","u","n","t","o"," ","d","e"," ","C","a","d","e","i",
        "r","a","s"," ","p","a","r","a"," ","J","a","n","t","a","r">>,
      <<"C","o","n","j","u","n","t","o"," ","c","o","m"," ","6"," ","c","a",
        "d","e","i","r","a","s"," ","e","s","t","o","f","a","d","a","s"," ",
        "p","a","r","a"," ","m","e","s","a"," ","d","e"," ","j","a","n","t",
        "a","r","."," ","D","e","s","i","g","n"," ","c","l","U+00E1","s","s",
        "i","c","o"," ","e"," ","c","o","n","f","o","r","t","U+00E1","v","e",
        "l",".">>,
      Cozinha, Date2024(3, 15))>>

\* ProductImageStore.seedInitialData: a sample image without its id.
ImageSeed(productId, displayOrder, date) ==
  [productId |-> productId, displayOrder |-> displayOrder,
   dateCreated |-> date, dateModified |-> date]

sampleImages ==
  <<ImageSeed(1, 1, Date2024(1, 15)), ImageSeed(1, 2, Date2024(1, 15)),
    ImageSeed(1, 3, Date2024(1, 15)), ImageSeed(2, 1, Date2024(1, 20)),
    ImageSeed(2, 2, Date2024(1, 20)), ImageSeed(2, 3, Date2024(1, 20)),
    ImageSeed(2, 4, Date2024(1, 20))>>

\* { id, ...seed }: the stored record.
WithId(id, seed) == [f \in DOMAIN seed \cup {"id"} |-> IF f = "id" THEN id ELSE seed[f]]

Init ==
  /\ records = [id \in 1..Len(seedInitialData) |-> seedInitialData[id]]
  /\ slugIndex = [s \in {seedInitialData[id].slug : id \in 1..Len(seedInitialData)} |->
                    CHOOSE id \in 1..Len(seedInitialData) : seedInitialData[id].slug = s]
  /\ currentId = Len(seedInitialData)
  /\ direct = [id \in 1..Len(seedInitialData) |-> seedInitialData[id].productCount]
  /\ call = Idle
  /\ result = NONE
  /\ ops = 0
  /\ products = <<>>
  /\ productCurrentId = Len(sampleProducts)
  /\ images = [id \in 1..Len(sampleImages) |-> WithId(id, sampleImages[id])]
  /\ imageCurrentId = Len(sampleImages)
  /\ now = StartTime
  /\ response = NONE

\* -------------------------------------------------------------------- store

\* CategoryStore.getAll: the ids of the stored records.
getAll(recs) == DOMAIN recs

\* CategoryStore.exists
exists(recs, id) == id \in DOMAIN recs

\* CategoryStore.add (after the MAX_RECORDS test): sets the record and its
\* slug index entry.
StoreAdd(recs, idx, id, rec) ==
  [records |-> [i \in DOMAIN recs \cup {id} |-> IF i = id THEN rec ELSE recs[i]],
   slugIndex |-> [s \in DOMAIN idx \cup {rec.slug} |->
                    IF s = rec.slug THEN id ELSE idx[s]]]

StoreUpdateKeepSlug(recs, idx, id, data) ==
  IF id \notin DOMAIN recs THEN [records |-> recs, slugIndex |-> idx]
  ELSE [records |->
          [recs EXCEPT ![id] =
             [f \in DOMAIN recs[id] |->
                IF f \in DOMAIN data \ {"slug"} THEN data[f] ELSE recs[id][f]]],
        slugIndex |-> idx]

\* CategoryStore.update: merges the partial record `data` into the stored
\* one; the slug index moves only for a non-empty slug that differs.
StoreUpdate(recs, idx, id, data) ==
  IF id \notin DOMAIN recs THEN [records |-> recs, slugIndex |-> idx]
  ELSE
    LET existing == recs[id]
        updated == [f \in DOMAIN existing |->
                      IF f \in DOMAIN data THEN data[f] ELSE existing[f]]
        idx2 == IF "slug" \in DOMAIN data /\ data.slug # <<>> /\ data.slug # existing.slug
                THEN [s \in (DOMAIN idx \ {existing.slug}) \cup {data.slug} |->
                        IF s = data.slug THEN id ELSE idx[s]]
                ELSE idx
    IN [records |-> [recs EXCEPT ![id] = updated], slugIndex |-> idx2]

\* CategoryStore.getBySlug: the records found, at most one.
getBySlug(recs, idx, slug) ==
  IF slug \in DOMAIN idx /\ idx[slug] \in DOMAIN recs THEN {recs[idx[slug]]} ELSE {}

\* CategoryStore.delete
StoreDelete(recs, idx, id) ==
  IF id \in DOMAIN recs
  THEN [records |-> [i \in DOMAIN recs \ {id} |-> recs[i]],
        slugIndex |-> [s \in DOMAIN idx \ {recs[id].slug} |-> idx[s]]]
  ELSE [records |-> recs, slugIndex |-> idx]

\* ------------------------------------------------------------ business rules

calculateLevelResultNoLimit(recs, parentId) ==
  IF parentId = Null THEN OK
  ELSE IF parentId \notin DOMAIN recs THEN VALIDATION_ERROR
  ELSE OK

\* The outcome of calculateLevel: OK or the error it throws.
calculateLevelResult(recs, parentId) ==
  IF parentId = Null THEN OK
  ELSE IF parentId \notin DOMAIN recs THEN VALIDATION_ERROR
  ELSE IF recs[parentId].level + 1 > MAX_HIERARCHY_LEVEL THEN BUSINESS_RULE_ERROR
  ELSE OK

\* The level calculateLevel returns when it does not throw.
calculateLevel(recs, parentId) ==
  IF parentId = Null THEN 1 ELSE recs[parentId].level + 1

validateUniqueNameAtLevel(recs, name, parentId, excludeId) ==
  IF \E c \in getAll(recs) :
       /\ ToLowerCase(recs[c].name) = ToLowerCase(name)
       /\ recs[c].parentId = parentId
       /\ c # excludeId
  THEN BUSINESS_RULE_ERROR ELSE OK

validateUniqueSlugSkipEmpty(recs, slug, excludeId) ==
  IF slug # <<>> /\ \E c \in getAll(recs) : recs[c].slug = slug /\ c # excludeId
  THEN BUSINESS_RULE_ERROR ELSE OK

validateUniqueSlug(recs, slug, excludeId) ==
  IF \E c \in getAll(recs) : recs[c].slug = slug /\ c # excludeId
  THEN BUSINESS_RULE_ERROR ELSE OK

NoCycleWalkOneStep(recs, categoryId, currentParentId, visited) ==
  IF currentParentId = categoryId THEN BUSINESS_RULE_ERROR ELSE OK

\* The ancestor walk of validateNoCycle from currentParentId.
RECURSIVE NoCycleWalk(_, _, _, _)
NoCycleWalk(recs, categoryId, currentParentId, visited) ==
  IF currentParentId = Null THEN OK
  ELSE IF currentParentId \in visited THEN BUSINESS_RULE_ERROR
  ELSE IF currentParentId = categoryId THEN BUSINESS_RULE_ERROR
  ELSE IF currentParentId \notin DOMAIN recs THEN OK
  ELSE NoCycleWalk(recs, categoryId, recs[currentParentId].parentId,
                   visited \cup {currentParentId})

validateNoCycleSelfOnly(recs, categoryId, parentId) ==
  IF parentId = Null THEN OK
  ELSE IF parentId = categoryId THEN BUSINESS_RULE_ERROR
  ELSE OK

validateNoCycle(recs, categoryId, parentId) ==
  IF parentId = Null THEN OK
  ELSE IF parentId = categoryId THEN BUSINESS_RULE_ERROR
  ELSE NoCycleWalk(recs, categoryId, parentId, {})

MaxSecond(a, b) == b

Max(a, b) == IF a >= b THEN a ELSE b

updateProductCountNoParent(recs, idx, categoryId, delta) ==
  IF categoryId \notin DOMAIN recs THEN [records |-> recs, slugIndex |-> idx]
  ELSE StoreUpdate(recs, idx, categoryId,
                   [productCount |-> Max(0, recs[categoryId].productCount + delta)])

\* updateProductCount: returns the store after the walk (the slug index is
\* untouched because the partial record carries no slug).
RECURSIVE updateProductCount(_, _, _, _)
updateProductCount(recs, idx, categoryId, delta) ==
  IF categoryId \notin DOMAIN recs THEN [records |-> recs, slugIndex |-> idx]
  ELSE
    LET category == recs[categoryId]
        st == StoreUpdate(recs, idx, categoryId,
                          [productCount |-> Max(0, category.productCount + delta)])
    IN IF category.parentId # Null
       THEN updateProductCount(st.records, st.slugIndex, category.parentId, delta)
       ELSE st

\* ---------------------------------------------------------------- operations

getNextIdReusing(counter) == counter

\* getNextId of a store: the counter after the increment, which is the id.
getNextId(counter) == counter + 1

\* The first check that throws decides the outcome.
FirstError(rs) ==
  IF \E i \in 1..Len(rs) : rs[i] # OK
  THEN rs[CHOOSE i \in 1..Len(rs) : rs[i] # OK /\ \A j \in 1..(i - 1) : rs[j] = OK]
  ELSE OK

ThrowsAfterWrite(err) ==
  /\ result' = err
  /\ records' = [c \in DOMAIN records |-> [records[c] EXCEPT !.dateModified = now]]
  /\ UNCHANGED <<slugIndex, currentId, direct, ops>>

\* A call that throws before any store write.
Throws(err) ==
  /\ result' = err
  /\ UNCHANGED <<records, slugIndex, currentId, direct, ops>>

categoryCreate(name, parentId) ==
  LET slug == generateSlug(name)
      err == FirstError(<<validateUniqueNameAtLevel(records, name, parentId, Undefined),
                          validateUniqueSlug(records, slug, Undefined),
                          calculateLevelResult(records, parentId)>>)
  IN /\ call = Idle
     /\ call' = [op |-> "create", id |-> Null, name |-> name, parentId |-> parentId]
     /\ IF err # OK THEN Throws(err)
        ELSE
          LET id == getNextId(currentId)
              newCategory == [name |-> name, slug |-> slug, parentId |-> parentId,
                              level |-> calculateLevel(records, parentId),
                              productCount |-> 0, dateModified |-> now]
              st == StoreAdd(records, slugIndex, id, newCategory)
          IN /\ currentId < MaxId
             /\ currentId' = id
             /\ ops' = ops + 1
             /\ IF Cardinality(DOMAIN records) >= MAX_RECORDS
                THEN /\ result' = INTERNAL_ERROR
                     /\ UNCHANGED <<records, slugIndex, direct>>
                ELSE /\ result' = OK
                     /\ records' = st.records
                     /\ slugIndex' = st.slugIndex
                     /\ direct' = [i \in DOMAIN direct \cup {id} |->
                                     IF i = id THEN 0 ELSE direct[i]]

\* The checks of categoryUpdate, made before any store write.
categoryUpdateError(recs, id, name, parentId) ==
  IF id \notin DOMAIN recs THEN NOT_FOUND
  ELSE FirstError(<<validateUniqueNameAtLevel(recs, name, parentId, id),
                    validateNoCycle(recs, id, parentId),
                    validateUniqueSlug(recs, generateSlug(name), id),
                    calculateLevelResult(recs, parentId)>>)

\* The store write of categoryUpdate.
categoryUpdateStore(recs, idx, id, name, parentId, time) ==
  StoreUpdate(recs, idx, id,
              [name |-> name, slug |-> generateSlug(name), parentId |-> parentId,
               level |-> calculateLevel(recs, parentId), dateModified |-> time])

categoryUpdate(id, name, parentId) ==
  LET err == categoryUpdateError(records, id, name, parentId)
      st == categoryUpdateStore(records, slugIndex, id, name, parentId, now)
  IN /\ call = Idle
     /\ call' = [op |-> "update", id |-> id, name |-> name, parentId |-> parentId]
     /\ IF err # OK THEN Throws(err)
        ELSE /\ result' = OK
             /\ records' = st.records
             /\ slugIndex' = st.slugIndex
             /\ ops' = ops + 1
             /\ UNCHANGED <<currentId, direct>>

hasNoSubcategories(recs, id) == FALSE

\* categoryDelete's test that some category has this id as parentId.
hasSubcategories(recs, id) == \E c \in getAll(recs) : recs[c].parentId = id

categoryDelete(id) ==
  /\ call = Idle
  /\ call' = [op |-> "delete", id |-> id, name |-> <<>>, parentId |-> Null]
  /\ IF ~exists(records, id) THEN Throws(NOT_FOUND)
     ELSE IF hasSubcategories(records, id) THEN Throws(BUSINESS_RULE_ERROR)
     ELSE
       LET st == StoreDelete(records, slugIndex, id)
       IN /\ result' = OK
          /\ records' = st.records
          /\ slugIndex' = st.slugIndex
          /\ direct' = [i \in DOMAIN direct \ {id} |-> direct[i]]
          /\ ops' = ops + 1
          /\ UNCHANGED currentId

\* categoryAddProduct / categoryRemoveProduct: delta is +1 or -1. `direct`
\* follows the association itself: one more on this category, or one fewer
\* when there is one to remove.
ProductCountCall(op, categoryId, delta) ==
  /\ call = Idle
  /\ call' = [op |-> op, id |-> categoryId, name |-> <<>>, parentId |-> Null]
  /\ IF ~exists(records, categoryId) THEN Throws(NOT_FOUND)
     ELSE
       LET st == updateProductCount(records, slugIndex, categoryId, delta)
       IN /\ result' = OK
          /\ records' = st.records
          /\ slugIndex' = st.slugIndex
          /\ direct' = [direct EXCEPT ![categoryId] = Max(0, @ + delta)]
          /\ ops' = ops + 1
          /\ UNCHANGED currentId

categoryAddProduct(categoryId) == ProductCountCall("addProduct", categoryId, 1)

categoryRemoveProduct(categoryId) == ProductCountCall("removeProduct", categoryId, -1)

\* The controller sends the response; the next request can be served.
respond ==
  /\ call # Idle
  /\ call' = Idle
  /\ result' = NONE
  /\ response' = NONE
  /\ UNCHANGED <<records, slugIndex, currentId, direct, ops>>
  /\ UNCHANGED <<products, productCurrentId, images, imageCurrentId, now>>

\* ------------------------------------------------------------ product store

\* The seeded ProductStore records, in Map order.
seededProducts == [id \in 1..Len(sampleProducts) |-> WithId(id, sampleProducts[id])]

\* ProductStore.getAll: Array.from(records.values()), the seed first.
productGetAll == seededProducts \o products

\* ProductStore.exists
productExists(id) == \E i \in 1..Len(productGetAll) : productGetAll[i].id = id

\* ProductStore.add: records.set(record.id, record) of a record whose id is
\* new puts it last in Map order.
productStoreAdd(prods, record) == Append(prods, record)

\* -------------------------------------------------------------- image store

\* ProductImageStore.getAll: Array.from(records.values())
imageGetAll(imgs) == imgs

\* ProductImageStore.exists
imageExists(imgs, id) == \E i \in 1..Len(imgs) : imgs[i].id = id

\* ProductImageStore.getById (asked only for stored ids)
imageGetById(imgs, id) == imgs[CHOOSE i \in 1..Len(imgs) : imgs[i].id = id]

\* ProductImageStore.add: records.set(record.id, record); a new key goes last.
imageStoreAdd(imgs, record) ==
  IF imageExists(imgs, record.id)
  THEN [i \in 1..Len(imgs) |-> IF imgs[i].id = record.id THEN record ELSE imgs[i]]
  ELSE Append(imgs, record)

\* { ...existing, ...data }
Spread(existing, data) ==
  [f \in DOMAIN existing \cup DOMAIN data |->
     IF f \in DOMAIN data THEN data[f] ELSE existing[f]]

\* ProductImageStore.update: records.set(id, updated) of a stored key keeps
\* the record's place in Map order.
imageStoreUpdate(imgs, id, data) ==
  [i \in 1..Len(imgs) |-> IF imgs[i].id = id THEN Spread(imgs[i], data) ELSE imgs[i]]

\* ProductImageStore.delete
imageStoreDelete(imgs, id) == SelectSeq(imgs, LAMBDA r : r.id # id)

\* ------------------------------------------------------------------ sorting

UnstableSort(seq, cmp) ==
  LET n == Len(seq)
      pos(i) == 1 + Cardinality({j \in 1..n :
                       \/ cmp[j, i] < 0
                       \/ cmp[j, i] = 0 /\ j > i})
  IN [k \in 1..n |-> seq[CHOOSE i \in 1..n : pos(i) = k]]

\* Array.prototype.sort(compareFn) is stable: an element goes after those
\* that compare lower and after the earlier ones that compare equal.
\* cmp[i, j] is compareFn(seq[i], seq[j]).
StableSort(seq, cmp) ==
  LET n == Len(seq)
      pos(i) == 1 + Cardinality({j \in 1..n :
                       \/ cmp[j, i] < 0
                       \/ cmp[j, i] = 0 /\ j < i})
  IN [k \in 1..n |-> seq[CHOOSE i \in 1..n : pos(i) = k]]

\* (a, b) => a.displayOrder - b.displayOrder, for every two of the images
byDisplayOrder(imgs) ==
  [i, j \in 1..Len(imgs) |-> imgs[i].displayOrder - imgs[j].displayOrder]

\* .sort((a, b) => a.displayOrder - b.displayOrder)
sortByDisplayOrder(imgs) == StableSort(imgs, byDisplayOrder(imgs))

\* ---------------------------------------------------------- image operations

\* The images of one product, in store order.
imagesOf(imgs, productId) == SelectSeq(imageGetAll(imgs), LAMBDA r : r.productId = productId)

\* An image call that throws before any store write.
ImageThrows(err) ==
  /\ result' = err
  /\ UNCHANGED <<images, imageCurrentId, ops, response>>

productImageList(productId) ==
  /\ call = Idle
  /\ call' = [op |-> "imageList", productId |-> productId]
  /\ IF ~productExists(productId) THEN ImageThrows(NOT_FOUND)
     ELSE /\ result' = OK
          /\ response' = sortByDisplayOrder(imagesOf(images, productId))
          /\ UNCHANGED <<images, imageCurrentId, ops>>

\* Math.max(...values)
MaxOf(S) == CHOOSE m \in S : \A x \in S : x <= m

autoDisplayOrderFirst(existingImages) == 1

\* The display order of an image created without one.
autoDisplayOrder(existingImages) ==
  IF Len(existingImages) > 0
  THEN MaxOf({existingImages[i].displayOrder : i \in 1..Len(existingImages)}) + 1
  ELSE 1

atLimitNever(existingImages) == FALSE

\* The maximum images limit check.
atLimit(existingImages) == Len(existingImages) >= MAX_IMAGES_PER_PRODUCT

\* displayOrder is Undefined when the body carries none.
productImageCreate(productId, displayOrder) ==
  LET existingImages == imagesOf(images, productId)
  IN /\ call = Idle
     /\ call' = [op |-> "imageCreate", productId |-> productId,
                 displayOrder |-> displayOrder]
     /\ IF ~productExists(productId) THEN ImageThrows(NOT_FOUND)
        ELSE IF atLimit(existingImages) THEN ImageThrows(BUSINESS_RULE_ERROR)
        ELSE
          LET order == IF displayOrder # Undefined THEN displayOrder
                       ELSE autoDisplayOrder(existingImages)
              id == getNextId(imageCurrentId)
              newImage == [id |-> id, productId |-> productId, displayOrder |-> order,
                           dateCreated |-> now, dateModified |-> now]
          IN /\ imageCurrentId' = id
             /\ images' = imageStoreAdd(images, newImage)
             /\ result' = OK
             /\ ops' = ops + 1
             /\ UNCHANGED response

productImageUpdate(id, displayOrder) ==
  /\ call = Idle
  /\ call' = [op |-> "imageUpdate", id |-> id, displayOrder |-> displayOrder]
  /\ IF ~imageExists(images, id) THEN ImageThrows(NOT_FOUND)
     ELSE /\ images' = imageStoreUpdate(images, id,
                         [displayOrder |-> displayOrder, dateModified |-> now])
          /\ result' = OK
          /\ ops' = ops + 1
          /\ UNCHANGED <<imageCurrentId, response>>

isLastImageNever(productImages) == FALSE

\* The last-image check of productImageDelete.
isLastImage(productImages) == Len(productImages) = 1

\* The checks of productImageDelete, made before the store write.
productImageDeleteError(imgs, id) ==
  IF ~imageExists(imgs, id) THEN NOT_FOUND
  ELSE IF isLastImage(imagesOf(imgs, imageGetById(imgs, id).productId))
       THEN BUSINESS_RULE_ERROR
  ELSE OK

productImageDelete(id) ==
  LET err == productImageDeleteError(images, id)
  IN /\ call = Idle
     /\ call' = [op |-> "imageDelete", id |-> id]
     /\ IF err # OK THEN ImageThrows(err)
        ELSE /\ images' = imageStoreDelete(images, id)
             /\ result' = OK
             /\ ops' = ops + 1
             /\ UNCHANGED <<imageCurrentId, response>>

\* The ownership test that productImageReorder makes on one item.
belongsTo(imgs, item, productId) ==
  imageExists(imgs, item.id) /\ imageGetById(imgs, item.id).productId = productId

\* The second loop of productImageReorder: one store update per item, in
\* list order.
RECURSIVE applyOrder(_, _, _)
applyOrder(imgs, imageOrder, time) ==
  IF imageOrder = <<>> THEN imgs
  ELSE applyOrder(imageStoreUpdate(imgs, Head(imageOrder).id,
                                   [displayOrder |-> Head(imageOrder).displayOrder,
                                    dateModified |-> time]),
                  Tail(imageOrder), time)

RECURSIVE reorderCheckingAsItGoes(_, _, _, _)
reorderCheckingAsItGoes(imgs, productId, imageOrder, time) ==
  IF imageOrder = <<>> THEN [error |-> OK, images |-> imgs]
  ELSE IF ~belongsTo(imgs, Head(imageOrder), productId)
       THEN [error |-> BUSINESS_RULE_ERROR, images |-> imgs]
  ELSE reorderCheckingAsItGoes(applyOrder(imgs, <<Head(imageOrder)>>, time),
                               productId, Tail(imageOrder), time)

\* The two loops of productImageReorder: every item is checked before any
\* item is applied.
reorderAll(imgs, productId, imageOrder, time) ==
  IF \E i \in 1..Len(imageOrder) : ~belongsTo(imgs, imageOrder[i], productId)
  THEN [error |-> BUSINESS_RULE_ERROR, images |-> imgs]
  ELSE [error |-> OK, images |-> applyOrder(imgs, imageOrder, time)]

\* The checks of productImageReorder, made before the first store write.
productImageReorderError(imgs, productId, imageOrder, time) ==
  IF ~productExists(productId) THEN NOT_FOUND
  ELSE reorderAll(imgs, productId, imageOrder, time).error

productImageReorder(productId, imageOrder) ==
  LET err == productImageReorderError(images, productId, imageOrder, now)
  IN /\ call = Idle
     /\ call' = [op |-> "imageReorder", productId |-> productId,
                 imageOrder |-> imageOrder]
     /\ result' = err
     /\ images' = IF err = NOT_FOUND THEN images
                  ELSE reorderAll(images, productId, imageOrder, now).images
     /\ ops' = IF err = OK THEN ops + 1 ELSE ops
     /\ UNCHANGED <<imageCurrentId, response>>

\* ------------------------------------------------------------- product list

PAGE == 1
PAGE_SIZE == 9
SORT_BY == "date_desc"

\* The page sizes and sort keys listQuerySchema accepts.
PageSizes == {9, 18, 27, 36}
SortKeys == {"name_asc", "name_desc", "date_desc", "date_asc"}

\* An omitted string field, an omitted sort key and a null string: values
\* no string of one-character strings and no sort key can equal.
UndefinedString == <<"undefined">>
UndefinedKey == "undefined"
NullString == <<"null">>

\* String.prototype.includes
Includes(s, t) ==
  \E i \in 0..(Len(s) - Len(t)) : \A k \in 1..Len(t) : s[i + k] = t[k]

\* The accented small letters of the seeded texts and their base letters.
Accented ==
  [c \in {"U+00E1", "U+00E2", "U+00E3", "U+00E7", "U+00E9", "U+00ED",
          "U+00F3", "U+00F4", "U+00FA"} |->
     CASE c \in {"U+00E1", "U+00E2", "U+00E3"} -> "a"
       [] c = "U+00E7" -> "c"
       [] c = "U+00E9" -> "e"
       [] c = "U+00ED" -> "i"
       [] c \in {"U+00F3", "U+00F4"} -> "o"
       [] c = "U+00FA" -> "u"]

\* Collation order of the base characters: white space, punctuation,
\* digits, letters.
CollationOrder ==
  <<" ", "-", ",", ".", "0", "1", "2", "3", "4", "5", "6", "7", "8", "9">>
  \o LowerLetters

\* Primary weight of a character: that of its base letter, whatever its case
\* or accent.
PrimaryWeight ==
  [c \in {CollationOrder[i] : i \in 1..Len(CollationOrder)}
         \cup DOMAIN LowerOf \cup DOMAIN Accented |->
     LET low == IF c \in DOMAIN LowerOf THEN LowerOf[c] ELSE c
         base == IF low \in DOMAIN Accented THEN Accented[low] ELSE low
     IN CHOOSE i \in 1..Len(CollationOrder) : CollationOrder[i] = base]

\* Secondary weight (accent) and tertiary weight (case) of a character.
SecondaryWeight(c) == IF c \in DOMAIN Accented THEN 1 ELSE 0
TertiaryWeight(c) == IF c \in DOMAIN LowerOf THEN 1 ELSE 0

\* Order of two weight sequences: -1, 0 or 1.
RECURSIVE LexCompare(_, _)
LexCompare(a, b) ==
  IF a = <<>> /\ b = <<>> THEN 0
  ELSE IF a = <<>> THEN -1
  ELSE IF b = <<>> THEN 1
  ELSE IF Head(a) < Head(b) THEN -1
  ELSE IF Head(a) > Head(b) THEN 1
  ELSE LexCompare(Tail(a), Tail(b))

\* String.prototype.localeCompare: base letters decide first, then accents,
\* then case.
localeCompare(a, b) ==
  LET primary == LexCompare([i \in 1..Len(a) |-> PrimaryWeight[a[i]]],
                            [i \in 1..Len(b) |-> PrimaryWeight[b[i]]])
      secondary == LexCompare([i \in 1..Len(a) |-> SecondaryWeight(a[i])],
                              [i \in 1..Len(b) |-> SecondaryWeight(b[i])])
      tertiary == LexCompare([i \in 1..Len(a) |-> TertiaryWeight(a[i])],
                             [i \in 1..Len(b) |-> TertiaryWeight(b[i])])
  IN IF primary # 0 THEN primary
     ELSE IF secondary # 0 THEN secondary
     ELSE tertiary

\* The search filter of productList.
matchesSearch(p, search) ==
  LET searchLower == ToLowerCase(search)
  IN \/ Includes(ToLowerCase(p.name), searchLower)
     \/ p.description # NullString /\ Includes(ToLowerCase(p.description), searchLower)

\* The two filters of productList; an empty string is falsy and filters
\* nothing.
filterProducts(prods, params) ==
  LET searched == IF params.search # UndefinedString /\ params.search # <<>>
                  THEN SelectSeq(prods, LAMBDA p : matchesSearch(p, params.search))
                  ELSE prods
  IN IF params.category # UndefinedString /\ params.category # <<>>
     THEN SelectSeq(searched, LAMBDA p : p.category = params.category)
     ELSE searched

compareProductsAscending(sortBy, a, b) ==
  CASE sortBy \in {"name_asc", "name_desc"} -> localeCompare(a.name, b.name)
    [] OTHER -> a.dateCreated - b.dateCreated

\* The compare function of productList's sort.
compareProducts(sortBy, a, b) ==
  CASE sortBy = "name_asc" -> localeCompare(a.name, b.name)
    [] sortBy = "name_desc" -> localeCompare(b.name, a.name)
    [] sortBy = "date_asc" -> a.dateCreated - b.dateCreated
    [] OTHER -> b.dateCreated - a.dateCreated

\* products.sort(compare function)
sortProducts(prods, sortBy) ==
  StableSort(prods, [i, j \in 1..Len(prods) |-> compareProducts(sortBy, prods[i], prods[j])])

CeilFloor(a, b) == a \div b

\* Math.ceil(a / b) for a >= 0 and b > 0
Ceil(a, b) == (a + b - 1) \div b

Min(a, b) == IF a <= b THEN a ELSE b

sliceInclusive(seq, start, end) == SubSeq(seq, start + 1, Min(end + 1, Len(seq)))

sliceFromStart(seq, start, end) == SubSeq(seq, 1, Min(end - start, Len(seq)))

\* Array.prototype.slice(start, end) for 0 <= start <= end
slice(seq, start, end) == SubSeq(seq, start + 1, Min(end, Len(seq)))

\* The list item made of a product.
ListItem(p) ==
  [id |-> p.id, name |-> p.name, category |-> p.category,
   dateCreated |-> p.dateCreated]

\* listQuerySchema.safeParse(query).success
validListQuery(query) ==
  /\ query.sortBy = UndefinedKey \/ query.sortBy \in SortKeys
  /\ query.page = Undefined \/ query.page > 0
  /\ query.pageSize = Undefined \/ query.pageSize \in PageSizes

\* The value productList returns for a valid query.
productListResponse(prods, params) ==
  LET page == IF params.page # Undefined THEN params.page ELSE PAGE
      pageSize == IF params.pageSize # Undefined THEN params.pageSize ELSE PAGE_SIZE
      sortBy == IF params.sortBy # UndefinedKey THEN params.sortBy ELSE SORT_BY
      sorted == sortProducts(filterProducts(prods, params), sortBy)
      total == Len(sorted)
      totalPages == Ceil(total, pageSize)
      offset == (page - 1) * pageSize
      paginatedProducts == slice(sorted, offset, offset + pageSize)
  IN [items |-> [i \in 1..Len(paginatedProducts) |-> ListItem(paginatedProducts[i])],
      total |-> total, page |-> page, pageSize |-> pageSize,
      totalPages |-> totalPages,
      hasNext |-> page < totalPages, hasPrevious |-> page > 1]

productList(query) ==
  /\ call = Idle
  /\ call' = [op |-> "productList", query |-> query]
  /\ IF ~validListQuery(query)
     THEN result' = VALIDATION_ERROR /\ response' = NONE
     ELSE result' = OK /\ response' = productListResponse(productGetAll, query)
  /\ UNCHANGED <<categoryVars, products, productCurrentId, images, imageCurrentId,
                 now, ops>>

\* CatalogPage.handleCategorySelect with the slug that CategoryMenu hands it
\* for the chosen category: the page navigates to /catalog?category=<slug>,
\* reads the parameter back (a slug holds only characters that a URL keeps
\* as they are; an empty one is ignored) and lists the first page of the
\* products with that category filter.
handleCategorySelect(categoryId) ==
  LET slug == records[categoryId].slug
      filters == [search |-> UndefinedString,
                  category |-> IF slug = <<>> THEN UndefinedString ELSE slug,
                  sortBy |-> "date_desc", page |-> 1, pageSize |-> 9]
  IN /\ call = Idle
     /\ call' = [op |-> "categorySelect", id |-> categoryId, query |-> filters]
     /\ result' = OK
     /\ response' = productListResponse(productGetAll, filters)
     /\ UNCHANGED <<categoryVars, products, productCurrentId, images,
                    imageCurrentId, now, ops>>

\* A caller of ProductStore.getNextId and ProductStore.add.
productAdd(record) ==
  LET id == getNextId(productCurrentId)
  IN /\ call = Idle
     /\ call' = [op |-> "productAdd", id |-> id]
     /\ productCurrentId' = id
     /\ products' = productStoreAdd(products, WithId(id, record))
     /\ result' = OK
     /\ ops' = ops + 1
     /\ UNCHANGED <<categoryVars, images, imageCurrentId, now, response>>

\* ------------------------------------------------------------- specification

Ids == 1..MaxId
ParentIds == {Null} \cup Ids

\* The name an update request carries: the stored one or one of `renames`.
UpdateNames(id, renames) ==
  IF id \in DOMAIN records THEN {records[id].name} \cup renames ELSE {<<"A","b">>}

\* Requests are served while fewer than `budget` mutations have succeeded.
CreateRequest(budget) ==
  /\ ops < budget
  /\ \E name \in Names, parentId \in ParentIds : categoryCreate(name, parentId)
  /\ UNCHANGED catalogVars

UpdateRequest(budget, renames) ==
  /\ ops < budget
  /\ \E id \in Ids : \E name \in UpdateNames(id, renames), parentId \in ParentIds :
       categoryUpdate(id, name, parentId)
  /\ UNCHANGED catalogVars

DeleteRequest(budget) ==
  /\ ops < budget
  /\ \E id \in Ids : categoryDelete(id)
  /\ UNCHANGED catalogVars

AddProductRequest(budget) ==
  /\ ops < budget
  /\ \E id \in Ids : categoryAddProduct(id)
  /\ UNCHANGED catalogVars

RemoveProductRequest(budget) ==
  /\ ops < budget
  /\ \E id \in Ids : categoryRemoveProduct(id)
  /\ UNCHANGED catalogVars

\* Update requests may rename.
Next ==
  \/ CreateRequest(MaxOps)
  \/ UpdateRequest(MaxOps, Names)
  \/ DeleteRequest(MaxOps)
  \/ AddProductRequest(MaxOps)
  \/ RemoveProductRequest(MaxOps)
  \/ respond

Spec == Init /\ [][Next]_vars

\* Update requests carry the stored name, so longer runs stay tractable.
NextTree ==
  \/ CreateRequest(MaxTreeOps)
  \/ UpdateRequest(MaxTreeOps, {})
  \/ DeleteRequest(MaxTreeOps)
  \/ AddProductRequest(MaxTreeOps)
  \/ RemoveProductRequest(MaxTreeOps)
  \/ respond

SpecTree == Init /\ [][NextTree]_vars

\* ------------------------------------------------- specification: gallery

\* Products an image request may name: 1 (three seeded images), 2 (four),
\* 3 (none) and the first id that is not stored.
ImageProductIds == {1, 2, 3, Len(sampleProducts) + 1}

\* Image ids a request may name; the seed uses 1..7.
ImageIds == 1..MaxImageId

\* Display orders a request may carry: one that ties with a seeded image and
\* one above every seeded image.
DisplayOrders == {1, 5}

Item(id, displayOrder) == [id |-> id, displayOrder |-> displayOrder]

\* The imageOrder lists a reorder request may carry: empty, own images of
\* product 1, an image of product 2 (id 4) or a missing one (id 99) before
\* and after an own one, and one image named twice.
ImageOrders ==
  { <<>>,
    <<Item(3, 1)>>,
    <<Item(1, 2), Item(2, 1)>>,
    <<Item(1, 5), Item(4, 1)>>,
    <<Item(4, 1), Item(1, 5)>>,
    <<Item(2, 5), Item(99, 1)>>,
    <<Item(1, 1), Item(1, 5)>> }

\* The clock advances between requests.
tick ==
  /\ call = Idle
  /\ now < StartTime + MaxTicks
  /\ now' = now + 1
  /\ UNCHANGED <<categoryVars, call, result, ops>>
  /\ UNCHANGED <<products, productCurrentId, images, imageCurrentId, response>>

\* What an image request leaves alone.
ImageFrame == UNCHANGED <<categoryVars, products, productCurrentId, now>>

\* A request that succeeds is served while fewer than `budget` mutations
\* have succeeded; a request that fails is always served.
ImageCreateRequest(budget, productIds, orders) ==
  /\ \E productId \in productIds, displayOrder \in orders :
       productImageCreate(productId, displayOrder)
  /\ result' = OK => ops < budget
  /\ ImageFrame

ImageUpdateRequest(budget, ids, orders) ==
  /\ \E id \in ids, displayOrder \in orders : productImageUpdate(id, displayOrder)
  /\ result' = OK => ops < budget
  /\ ImageFrame

ImageDeleteRequest(budget, ids) ==
  /\ \E id \in ids : productImageDelete(id)
  /\ result' = OK => ops < budget
  /\ ImageFrame

ImageReorderRequest(budget, productIds, lists) ==
  /\ \E productId \in productIds, imageOrder \in lists :
       productImageReorder(productId, imageOrder)
  /\ result' = OK => ops < budget
  /\ ImageFrame

ImageListRequest(productIds) ==
  /\ \E productId \in productIds : productImageList(productId)
  /\ ImageFrame

NextImages ==
  \/ ImageCreateRequest(MaxImageOps, ImageProductIds, {Undefined} \cup DisplayOrders)
  \/ ImageUpdateRequest(MaxImageOps, ImageIds, DisplayOrders)
  \/ ImageDeleteRequest(MaxImageOps, ImageIds)
  \/ ImageReorderRequest(MaxImageOps, ImageProductIds, ImageOrders)
  \/ ImageListRequest(ImageProductIds)
  \/ respond

SpecImages == Init /\ [][NextImages]_vars

\* Longer runs on product 2 alone (and the product that is not stored), far
\* enough to fill its gallery: images are created without a display order,
\* its first seeded image (id 4) and the first created one (id 8) are
\* updated, deleted and reordered, and the clock advances.
NextImageCap ==
  \/ ImageCreateRequest(MaxCapOps, {2, Len(sampleProducts) + 1}, {Undefined})
  \/ ImageUpdateRequest(MaxCapOps, {4}, {5})
  \/ ImageDeleteRequest(MaxCapOps, {4, 8})
  \/ ImageReorderRequest(MaxCapOps, {2}, {<<Item(8, 1)>>})
  \/ ImageListRequest({2})
  \/ tick
  \/ respond

SpecImageCap == Init /\ [][NextImageCap]_vars

\* ------------------------------------------------ specification: identifiers

\* Categories named "Ab" (at the root or under category 1) and images of
\* product 2 are created and deleted in the same behaviour, so that each
\* store hands out ids after a deletion, the highest id's included.
IdsCreateRequest ==
  /\ ops < MaxIdOps
  /\ \E parentId \in {Null, 1} : categoryCreate(<<"A","b">>, parentId)
  /\ UNCHANGED catalogVars

NextIds ==
  \/ IdsCreateRequest
  \/ DeleteRequest(MaxIdOps)
  \/ ImageCreateRequest(MaxIdOps, {2}, {Undefined})
  \/ ImageDeleteRequest(MaxIdOps, Len(sampleImages)..MaxImageId)
  \/ respond

SpecIds == Init /\ [][NextIds]_vars

\* ------------------------------------------------ specification: concurrency

\* The part of the stores that the concurrent requests read and write.
storeOf(recs, idx, imgs) == [records |-> recs, slugIndex |-> idx, images |-> imgs]

\* What the checks of a request's handler answer on store st.
handlerError(st, req, time) ==
  CASE req.op = "update" ->
         categoryUpdateError(st.records, req.id, req.name, req.parentId)
    [] req.op = "imageDelete" -> productImageDeleteError(st.images, req.id)
    [] req.op = "imageReorder" ->
         productImageReorderError(st.images, req.productId, req.imageOrder, time)

\* The store writes of a request's handler, applied to store st.
handlerWrite(st, req, time) ==
  CASE req.op = "update" ->
         LET out == categoryUpdateStore(st.records, st.slugIndex, req.id, req.name,
                                        req.parentId, time)
         IN storeOf(out.records, out.slugIndex, st.images)
    [] req.op = "imageDelete" ->
         storeOf(st.records, st.slugIndex, imageStoreDelete(st.images, req.id))
    [] req.op = "imageReorder" ->
         storeOf(st.records, st.slugIndex, applyOrder(st.images, req.imageOrder, time))

\* A handler run from its first statement to its return or throw.
serve(st, req, time) ==
  IF handlerError(st, req, time) # OK THEN st ELSE handlerWrite(st, req, time)

\* The requests that are issued in pairs: renames of categories 1 and 2 to
\* the same name, a move of category 2 under category 1, deletions of the
\* three images of product 1 and two reorders of them.
ConcurrentRequests ==
  { [op |-> "update", id |-> 1, name |-> <<"A","b">>, parentId |-> Null],
    [op |-> "update", id |-> 2, name |-> <<"A","b">>, parentId |-> Null],
    [op |-> "update", id |-> 2, name |-> Quarto, parentId |-> 1] }
  \cup { [op |-> "imageDelete", id |-> id] : id \in 1..3 }
  \cup { [op |-> "imageReorder", productId |-> 1, imageOrder |-> imageOrder] :
           imageOrder \in { <<Item(1, 5), Item(2, 1)>>, <<Item(2, 5)>> } }

handlerMayStartAnytime(c) == TRUE

\* The service bodies contain no await: a handler that has started holds
\* the thread until it returns or throws, so the event loop starts a
\* handler only when none is running.
handlerMayStart(c) == c.running = 0

\* Two requests arrive together.
issue ==
  /\ call = Idle
  /\ ops < MaxPairs
  /\ \E a \in ConcurrentRequests, b \in ConcurrentRequests :
       call' = [op |-> "concurrent", requests |-> <<a, b>>,
                pc |-> <<"issued", "issued">>, running |-> 0,
                before |-> storeOf(records, slugIndex, images)]
  /\ ops' = ops + 1
  /\ UNCHANGED <<records, slugIndex, currentId, direct, result, catalogVars>>

\* Handler i runs its checks: it throws, or goes on to its store writes.
begin(i) ==
  /\ call.op = "concurrent"
  /\ call.pc[i] = "issued"
  /\ handlerMayStart(call)
  /\ LET err == handlerError(storeOf(records, slugIndex, images), call.requests[i], now)
     IN /\ result' = err
        /\ call' = IF err # OK THEN [call EXCEPT !.pc[i] = "done"]
                   ELSE [call EXCEPT !.pc[i] = "checked", !.running = i]
  /\ UNCHANGED <<records, slugIndex, currentId, direct, ops, catalogVars>>

\* Handler i makes its store writes and returns.
write(i) ==
  /\ call.op = "concurrent"
  /\ call.pc[i] = "checked"
  /\ LET st == handlerWrite(storeOf(records, slugIndex, images), call.requests[i], now)
     IN /\ records' = st.records
        /\ slugIndex' = st.slugIndex
        /\ images' = st.images
  /\ call' = [call EXCEPT !.pc[i] = "done", !.running = 0]
  /\ result' = OK
  /\ UNCHANGED <<currentId, direct, ops, products, productCurrentId,
                 imageCurrentId, now, response>>

\* Both responses have been sent.
settle ==
  /\ call.op = "concurrent"
  /\ call.pc = <<"done", "done">>
  /\ respond

NextConcurrent ==
  \/ issue
  \/ begin(1)
  \/ begin(2)
  \/ write(1)
  \/ write(2)
  \/ settle

SpecConcurrent == Init /\ [][NextConcurrent]_vars

\* ------------------------------------------------------ specification: slugs

\* Names of up to MaxNameLen characters: a capital, a small letter, a digit,
\* a space, a hyphen, a symbol, an accented letter and a combining accent.
SlugNames ==
  UNION { [1..n -> {"A", "b", "1", " ", "-", "!", OAcute, CombiningAcute}] :
            n \in 1..MaxNameLen }

\* generateSlug applied to a name; the slug is the response.
slugRequest ==
  /\ call = Idle
  /\ \E name \in SlugNames :
       /\ call' = [op |-> "generateSlug", name |-> name]
       /\ response' = generateSlug(name)
  /\ result' = OK
  /\ UNCHANGED <<categoryVars, ops, products, productCurrentId, images,
                 imageCurrentId, now>>

NextSlug ==
  \/ slugRequest
  \/ respond

SpecSlug == Init /\ [][NextSlug]_vars

\* ------------------------------------------------- specification: cycle walk

\* validateNoCycle executed statement by statement on any store content:
\* every category's parentId is null, a stored id or the id of no category,
\* so the links may form cycles; the call is at the function's entry.
InitWalk ==
  /\ records \in { [id \in 1..MaxWalkIds |->
                      [SeedRecord(<<"A">>, <<"a">>, 0) EXCEPT !.parentId = link[id]]] :
                    link \in [1..MaxWalkIds -> {Null} \cup 1..(MaxWalkIds + 1)] }
  /\ slugIndex = <<>>
  /\ currentId = MaxWalkIds
  /\ direct = [id \in 1..MaxWalkIds |-> 0]
  /\ \E categoryId \in 1..(MaxWalkIds + 1), parentId \in {Null} \cup 1..(MaxWalkIds + 1) :
       call = [op |-> "validateNoCycle", categoryId |-> categoryId,
               parentId |-> parentId, currentParentId |-> Null, visited |-> {},
               pc |-> "entry"]
  /\ result = NONE
  /\ ops = 0
  /\ products = <<>>
  /\ productCurrentId = Len(sampleProducts)
  /\ images = [id \in 1..Len(sampleImages) |-> WithId(id, sampleImages[id])]
  /\ imageCurrentId = Len(sampleImages)
  /\ now = StartTime
  /\ response = NONE

\* The statements before the loop.
walkEnter ==
  /\ call.op = "validateNoCycle"
  /\ call.pc = "entry"
  /\ IF call.parentId = Null
     THEN result' = OK /\ call' = [call EXCEPT !.pc = "done"]
     ELSE IF call.parentId = call.categoryId
          THEN result' = BUSINESS_RULE_ERROR /\ call' = [call EXCEPT !.pc = "done"]
     ELSE /\ call' = [call EXCEPT !.currentParentId = call.parentId, !.pc = "loop"]
          /\ UNCHANGED result
  /\ UNCHANGED <<categoryVars, ops, catalogVars>>

visitedHasNever(visited, id) == FALSE

\* visited.has(currentParentId)
visitedHas(visited, id) == id \in visited

\* The loop test and one pass through the loop body.
walkStep ==
  /\ call.op = "validateNoCycle"
  /\ call.pc = "loop"
  /\ IF call.currentParentId = Null
     THEN result' = OK /\ call' = [call EXCEPT !.pc = "done"]
     ELSE IF visitedHas(call.visited, call.currentParentId)
          THEN result' = BUSINESS_RULE_ERROR /\ call' = [call EXCEPT !.pc = "done"]
     ELSE IF call.currentParentId = call.categoryId
          THEN /\ result' = BUSINESS_RULE_ERROR
               /\ call' = [call EXCEPT !.pc = "done",
                                        !.visited = @ \cup {call.currentParentId}]
     ELSE IF call.currentParentId \notin DOMAIN records
          THEN /\ result' = OK
               /\ call' = [call EXCEPT !.pc = "done",
                                        !.visited = @ \cup {call.currentParentId}]
     ELSE /\ call' = [call EXCEPT !.visited = @ \cup {call.currentParentId},
                                  !.currentParentId =
                                     records[call.currentParentId].parentId]
          /\ UNCHANGED result
  /\ UNCHANGED <<categoryVars, ops, catalogVars>>

NextWalk ==
  \/ walkEnter
  \/ walkStep

\* The thread that runs validateNoCycle keeps running it.
SpecWalk == InitWalk /\ [][NextWalk]_vars /\ WF_vars(NextWalk)

\* ---------------------------------------------- specification: product list

\* Records the store may receive: one that ties with product 1 on name and
\* on date, and one with a name and a date (today) of its own.
AddedProducts ==
  { ProductSeed(sampleProducts[1].name, NullString, SalaDeEstar,
                sampleProducts[1].dateCreated),
    ProductSeed(<<"A","b","a","j","u","r">>, NullString, Quarto, StartTime) }

\* The queries a list request may carry; page 0, page size 10 and sort key
\* "price" fail validation.
Searches == {UndefinedString, <<>>, <<"C","A","D">>, <<"z","z">>}
Categories == {UndefinedString, SalaDeEstar, <<"X">>}
SortBys == {UndefinedKey, "price"} \cup SortKeys
Pages == {Undefined} \cup 0..MaxPage
QueryPageSizes == {Undefined, 9, 10, 18}

Queries ==
  [search : Searches, category : Categories, sortBy : SortBys,
   page : Pages, pageSize : QueryPageSizes]

ProductListRequest == \E query \in Queries : productList(query)

ProductAddRequest ==
  /\ productCurrentId < MaxProductId
  /\ \E record \in AddedProducts : productAdd(record)

\* A visitor picks one of the stored categories in the catalog's menu.
CategorySelectRequest == \E categoryId \in DOMAIN records : handleCategorySelect(categoryId)

NextList ==
  \/ ProductListRequest
  \/ ProductAddRequest
  \/ CategorySelectRequest
  \/ respond

SpecList == Init /\ [][NextList]_vars

\* ------------------------------------------------------------------ hierarchy

\* The stored categories met by following parentId links upward from id,
\* id itself excluded unless the links lead back to it.
RECURSIVE AncestorsFrom(_, _, _)
AncestorsFrom(recs, id, seen) ==
  LET p == recs[id].parentId
  IN IF p = Null \/ p \notin DOMAIN recs \/ p \in seen THEN seen
     ELSE AncestorsFrom(recs, p, seen \cup {p})

Ancestors(recs, id) == AncestorsFrom(recs, id, {})

Descendants(recs, id) == {c \in DOMAIN recs : id \in Ancestors(recs, c)}

\* Number of categories on the parentId chain of id, id and the root included.
Depth(recs, id) == 1 + Cardinality(Ancestors(recs, id) \ {id})

RECURSIVE SumOver(_, _)
SumOver(f, S) ==
  IF S = {} THEN 0
  ELSE LET x == CHOOSE y \in S : TRUE IN f[x] + SumOver(f, S \ {x})

\* Letters of the alphabet in use that differ only by case.
CasePairs ==
  {<<"A","a">>, <<"B","b">>, <<"C","c">>, <<"E","e">>, <<"Q","q">>, <<"S","s">>}

EqualIgnoringCase(s, t) ==
  /\ Len(s) = Len(t)
  /\ \A i \in 1..Len(s) :
       s[i] = t[i] \/ <<s[i], t[i]>> \in CasePairs \/ <<t[i], s[i]>> \in CasePairs

\* --------------------------------------------------------------------- claims

\* C1: no stored category has a depth (categories on its parentId chain, root
\* = 1) greater than 3, also after categoryUpdate re-parents a category that
\* has children or grandchildren.
C1_DepthAtMostThree ==
  \A c \in DOMAIN records : Depth(records, c) <= MAX_HIERARCHY_LEVEL

\* C2: every stored category's level is 1 when its parentId is null and its
\* parent's level plus 1 otherwise, descendants of a re-parented category
\* included.
C2_LevelFollowsParent ==
  \A c \in DOMAIN records :
    IF records[c].parentId = Null THEN records[c].level = 1
    ELSE /\ records[c].parentId \in DOMAIN records
         /\ records[c].level = records[records[c].parentId].level + 1

\* C3: no category is its own ancestor: following parentId links from a
\* stored category never returns to it.
C3_NoCycle == \A c \in DOMAIN records : c \notin Ancestors(records, c)

\* A category that has a child was given a parent by categoryUpdate.
C3_Witness ==
  /\ call.op = "update" /\ result = OK /\ call.parentId # Null
  /\ \E c \in DOMAIN records : records[c].parentId = call.id

C5_CreateRejected ==
  [][(call'.op = "create" /\ call'.parentId # Null)
     => /\ (call'.parentId \in DOMAIN records /\ records[call'.parentId].level = 3)
           => (result' = BUSINESS_RULE_ERROR /\ records' = records)
        /\ (call'.parentId \notin DOMAIN records)
           => (result' = VALIDATION_ERROR /\ records' = records)]_vars

\* C5 (amended): as C5, except that with a parentId that names no stored
\* category the error is BUSINESS_RULE_ERROR when the slug generated from the
\* name is already taken, and VALIDATION_ERROR otherwise.
C5_CreateRejectedAmended ==
  [][(call'.op = "create" /\ call'.parentId # Null)
     => /\ (call'.parentId \in DOMAIN records /\ records[call'.parentId].level = 3)
           => (result' = BUSINESS_RULE_ERROR /\ records' = records)
        /\ (call'.parentId \notin DOMAIN records)
           => /\ records' = records
              /\ result' =
                   IF \E c \in DOMAIN records : records[c].slug = generateSlug(call'.name)
                   THEN BUSINESS_RULE_ERROR ELSE VALIDATION_ERROR]_vars

\* A create under a level-3 category was rejected.
C5_Witness ==
  /\ call.op = "create" /\ result = BUSINESS_RULE_ERROR
  /\ call.parentId \in DOMAIN records /\ records[call.parentId].level = 3

\* C6: no two distinct stored categories have the same slug, the empty slug
\* of a name without letters or digits included.
C6_SlugUnique ==
  \A a, b \in DOMAIN records : a # b => records[a].slug # records[b].slug

\* A second category whose slug would be empty was rejected while one is stored.
C6_Witness ==
  /\ call.op \in {"create", "update"} /\ result = BUSINESS_RULE_ERROR
  /\ generateSlug(call.name) = <<>>
  /\ \E c \in DOMAIN records :
       /\ records[c].slug = <<>> /\ c # call.id
       /\ records[c].parentId # call.parentId

\* C7: no two distinct stored categories with the same parentId have names
\* that are equal ignoring case.
C7_NameUniqueAmongSiblings ==
  \A a, b \in DOMAIN records :
    (a # b /\ records[a].parentId = records[b].parentId)
      => ~EqualIgnoringCase(records[a].name, records[b].name)

\* A request was rejected whose name differs only by case from a stored
\* sibling-to-be.
C7_Witness ==
  /\ call.op \in {"create", "update"} /\ result = BUSINESS_RULE_ERROR
  /\ \E c \in DOMAIN records :
       /\ c # call.id /\ records[c].parentId = call.parentId
       /\ records[c].name # call.name
       /\ EqualIgnoringCase(records[c].name, call.name)

\* C8: categoryDelete fails with NOT_FOUND on an absent id, fails with
\* BUSINESS_RULE_ERROR and leaves the store unchanged when some stored
\* category has the id as parentId, and otherwise removes exactly that
\* category.
C8_Delete ==
  [][call'.op = "delete"
     => IF call'.id \notin DOMAIN records
        THEN result' = NOT_FOUND /\ records' = records /\ slugIndex' = slugIndex
        ELSE IF \E c \in DOMAIN records : records[c].parentId = call'.id
        THEN /\ result' = BUSINESS_RULE_ERROR
             /\ records' = records /\ slugIndex' = slugIndex
        ELSE /\ result' = OK
             /\ DOMAIN records' = DOMAIN records \ {call'.id}
             /\ \A c \in DOMAIN records' : records'[c] = records[c]]_vars

\* The delete of a category that has a child was rejected.
C8_Witness ==
  /\ call.op = "delete" /\ result = BUSINESS_RULE_ERROR
  /\ \E c \in DOMAIN records : records[c].parentId = call.id

\* C9: categoryAddProduct(c) adds exactly 1 to productCount of c and of every
\* ancestor of c; categoryRemoveProduct(c) subtracts 1 from the same
\* categories, each clamped at 0; no other productCount changes.
C9_CountPropagates ==
  [][(call'.op \in {"addProduct", "removeProduct"} /\ call'.id \in DOMAIN records)
     => LET chain == {call'.id} \cup Ancestors(records, call'.id)
        IN /\ result' = OK
           /\ DOMAIN records' = DOMAIN records
           /\ \A c \in DOMAIN records :
                records'[c].productCount =
                  IF c \notin chain THEN records[c].productCount
                  ELSE IF call'.op = "addProduct" THEN records[c].productCount + 1
                  ELSE IF records[c].productCount = 0 THEN 0
                  ELSE records[c].productCount - 1]_vars

\* A product was added to a category that has a parent and a grandparent.
C9_Witness ==
  /\ call.op = "addProduct" /\ result = OK
  /\ Cardinality(Ancestors(records, call.id)) = 2

\* C10: every category's productCount equals the product associations made
\* on it plus those made on all of its current descendants.
C10_CountIsAggregate ==
  \A c \in DOMAIN records :
    records[c].productCount = direct[c] + SumOver(direct, Descendants(records, c))

\* ------------------------------------------------------------ count floor

\* C11: every stored category has productCount >= 0, also when
\* categoryRemoveProduct is called more often than categoryAddProduct.
C11_ProductCountNonNegative ==
  \A c \in DOMAIN records : records[c].productCount >= 0

\* The second successful mutation is a removal on a category created by the
\* first, so no product was ever added to it.
C11_Witness ==
  /\ call.op = "removeProduct" /\ result = OK
  /\ ops = 2
  /\ call.id > Len(seedInitialData)

\* ------------------------------------------------------------ product list

\* The page, page size and sort key a query stands for.
QueryPage(q) == IF q.page = Undefined THEN 1 ELSE q.page
QueryPageSize(q) == IF q.pageSize = Undefined THEN 9 ELSE q.pageSize
QuerySortBy(q) == IF q.sortBy = UndefinedKey THEN "date_desc" ELSE q.sortBy

\* A query with a page >= 1, a page size in {9, 18, 27, 36} and a known or
\* omitted sort key.
GoodQuery(q) ==
  /\ QueryPage(q) >= 1
  /\ QueryPageSize(q) \in {9, 18, 27, 36}
  /\ QuerySortBy(q) \in {"name_asc", "name_desc", "date_asc", "date_desc"}

\* The positions in the store of the products that pass the filters.
Passing(q) ==
  {k \in 1..Len(productGetAll) :
     LET p == productGetAll[k]
     IN /\ q.search \in {UndefinedString, <<>>} \/ matchesSearch(p, q.search)
        /\ q.category \in {UndefinedString, <<>>} \/ p.category = q.category}

\* The least number of pages of the given size that hold `total` items.
PagesNeeded(total, pageSize) ==
  CHOOSE n \in 0..total : n * pageSize >= total /\ \A m \in 0..(n - 1) : m * pageSize < total

\* Product a comes before product b in the requested order.
PrecedesByKey(sortBy, a, b) ==
  CASE sortBy = "name_asc" -> localeCompare(a.name, b.name) < 0
    [] sortBy = "name_desc" -> localeCompare(a.name, b.name) > 0
    [] sortBy = "date_asc" -> a.dateCreated < b.dateCreated
    [] sortBy = "date_desc" -> a.dateCreated > b.dateCreated

\* Neither product comes before the other in the requested order.
SameKey(sortBy, a, b) == ~PrecedesByKey(sortBy, a, b) /\ ~PrecedesByKey(sortBy, b, a)

\* The store position of the product with this id.
PositionOf(id) == CHOOSE k \in 1..Len(productGetAll) : productGetAll[k].id = id

\* The passing products that the sorted list holds before the one at store
\* position k: those of a lower key and, of equal key, those stored earlier.
Preceding(q, k) ==
  {j \in Passing(q) :
     \/ PrecedesByKey(QuerySortBy(q), productGetAll[j], productGetAll[k])
     \/ /\ SameKey(QuerySortBy(q), productGetAll[j], productGetAll[k])
        /\ j < k}

\* C12: for page >= 1 and pageSize in {9, 18, 27, 36}, productList returns
\* total = the number of products passing the filters, totalPages =
\* ceil(total / pageSize), items = the slice [(page-1)*pageSize,
\* (page-1)*pageSize + pageSize) of the sorted filtered list, hasNext =
\* (page < totalPages) and hasPrevious = (page > 1).
C12_Pagination ==
  (call.op = "productList" /\ GoodQuery(call.query))
    => LET q == call.query
           page == QueryPage(q)
           pageSize == QueryPageSize(q)
           sorted == sortProducts(filterProducts(productGetAll, q), QuerySortBy(q))
           total == Cardinality(Passing(q))
           offset == (page - 1) * pageSize
           count == IF total - offset <= 0 THEN 0
                    ELSE IF total - offset >= pageSize THEN pageSize
                    ELSE total - offset
       IN /\ result = OK
          /\ response.total = total
          /\ Len(sorted) = total
          /\ response.page = page
          /\ response.pageSize = pageSize
          /\ response.totalPages = PagesNeeded(total, pageSize)
          /\ Len(response.items) = count
          /\ \A i \in 1..count : response.items[i] = ListItem(sorted[offset + i])
          /\ response.hasNext = (page < PagesNeeded(total, pageSize))
          /\ response.hasPrevious = (page > 1)

\* The second and last page of a filtered list longer than the page size
\* was returned.
C12_Witness ==
  /\ call.op = "productList" /\ result = OK
  /\ response.page = 2 /\ response.total > response.pageSize
  /\ Len(response.items) = response.total - response.pageSize
  /\ response.hasPrevious /\ ~response.hasNext

\* C13: productList with a page greater than totalPages (any page when the
\* filtered list is empty) succeeds with an empty items list and hasNext =
\* FALSE.
C13_OutOfRangePage ==
  (/\ call.op = "productList" /\ GoodQuery(call.query)
   /\ QueryPage(call.query)
        > PagesNeeded(Cardinality(Passing(call.query)), QueryPageSize(call.query)))
    => /\ result = OK
       /\ response.items = <<>>
       /\ response.hasNext = FALSE

\* A page beyond the last page of a filtered list that is not empty was
\* asked for.
C13_Witness ==
  /\ call.op = "productList" /\ result = OK
  /\ response.total > 0
  /\ response.page > response.totalPages
  /\ response.items = <<>>

\* C14: productList orders the filtered products by the requested key (name
\* ascending, name descending, dateCreated ascending, dateCreated
\* descending, the last also when sortBy is omitted), and products of equal
\* key stand in store (insertion) order.
C14_SortOrder ==
  (call.op = "productList" /\ GoodQuery(call.query))
    => LET q == call.query
           offset == (QueryPage(q) - 1) * QueryPageSize(q)
       IN /\ result = OK
          /\ \A i \in 1..Len(response.items) :
               LET k == PositionOf(response.items[i].id)
               IN /\ k \in Passing(q)
                  /\ Cardinality(Preceding(q, k)) = offset + i - 1

\* A list sorted by name, descending, holds two products of the same name;
\* the one stored first stands first.
C14_Witness ==
  /\ call.op = "productList" /\ result = OK
  /\ call.query.sortBy = "name_desc"
  /\ \E i, j \in 1..Len(response.items) :
       /\ i < j
       /\ response.items[i].name = response.items[j].name
       /\ PositionOf(response.items[i].id) < PositionOf(response.items[j].id)

\* -------------------------------------------------------------- gallery

\* The product ids that stored images carry.
ImageOwners(imgs) == {imgs[i].productId : i \in 1..Len(imgs)}

\* The number of stored images of a product.
ImageCount(imgs, productId) ==
  Cardinality({i \in 1..Len(imgs) : imgs[i].productId = productId})

\* The stored images as a set of records.
ImageSet(imgs) == {imgs[i] : i \in 1..Len(imgs)}

\* Some product with this id is stored.
StoredProduct(productId) ==
  productId \in {productGetAll[i].id : i \in 1..Len(productGetAll)}

\* C15: after any create, update, delete or reorder no product has more than
\* 10 images; productImageCreate for a product that has 10 images fails
\* with BUSINESS_RULE_ERROR and adds nothing; for a product that does not
\* exist it fails with NOT_FOUND.
C15_ImageLimit ==
  [][/\ \A p \in ImageOwners(images') : ImageCount(images', p) <= 10
     /\ (call'.op = "imageCreate" /\ ImageCount(images, call'.productId) = 10)
          => (result' = BUSINESS_RULE_ERROR /\ images' = images)
     /\ (call'.op = "imageCreate" /\ ~StoredProduct(call'.productId))
          => (result' = NOT_FOUND /\ images' = images)]_vars

\* A create was refused on a product that holds ten images.
C15_Witness ==
  /\ call.op = "imageCreate" /\ result = BUSINESS_RULE_ERROR
  /\ ImageCount(images, call.productId) = 10

\* C16: a product that has an image never reaches zero images;
\* productImageDelete on the only remaining image of a product fails with
\* BUSINESS_RULE_ERROR and the image stays in the store.
C16_LastImageStays ==
  [][/\ \A p \in ImageOwners(images) : ImageCount(images', p) >= 1
     /\ (/\ call'.op = "imageDelete"
         /\ \E r \in ImageSet(images) :
              r.id = call'.id /\ ImageCount(images, r.productId) = 1)
          => (result' = BUSINESS_RULE_ERROR /\ images' = images)]_vars

\* The delete of the only image of a product was refused, after an earlier
\* delete had succeeded on that product.
C16_Witness ==
  /\ call.op = "imageDelete" /\ result = BUSINESS_RULE_ERROR
  /\ \E r \in ImageSet(images) :
       /\ r.id = call.id /\ ImageCount(images, r.productId) = 1
       /\ r.dateCreated < StartTime
       /\ ops = 2

\* An entry of a reorder list that names no stored image of the product.
Offending(imgs, item, productId) ==
  ~\E r \in ImageSet(imgs) : r.id = item.id /\ r.productId = productId

\* C17: productImageReorder whose list holds at least one entry naming an
\* image that does not exist or belongs to another product fails with
\* BUSINESS_RULE_ERROR and changes no image, wherever the entry stands.
C17_ReorderRejected ==
  [][(/\ call'.op = "imageReorder"
      /\ \E i \in 1..Len(call'.imageOrder) :
           Offending(images, call'.imageOrder[i], call'.productId))
       => (result' = BUSINESS_RULE_ERROR /\ images' = images)]_vars

\* C17 (amended): such a reorder fails and changes no image; the failure is
\* BUSINESS_RULE_ERROR when the product is stored and NOT_FOUND when it is
\* not.
C17_ReorderRejectedAmended ==
  [][(/\ call'.op = "imageReorder"
      /\ \E i \in 1..Len(call'.imageOrder) :
           Offending(images, call'.imageOrder[i], call'.productId))
       => /\ images' = images
          /\ result' = IF StoredProduct(call'.productId)
                       THEN BUSINESS_RULE_ERROR ELSE NOT_FOUND]_vars

\* A reorder was refused whose first entry is an image of the product and
\* whose second entry is not.
C17_Witness ==
  /\ call.op = "imageReorder" /\ result = BUSINESS_RULE_ERROR
  /\ Len(call.imageOrder) = 2
  /\ ~Offending(images, call.imageOrder[1], call.productId)
  /\ Offending(images, call.imageOrder[2], call.productId)
  /\ \E r \in ImageSet(images) :
       r.id = call.imageOrder[1].id /\ r.displayOrder # call.imageOrder[1].displayOrder

\* C18: productImageCreate without a displayOrder assigns 1 when the product
\* has no image and otherwise the product's highest displayOrder plus 1, so
\* the new image is strictly last in productImageList for the product.
C18_AutoDisplayOrder ==
  [][(call'.op = "imageCreate" /\ call'.displayOrder = Undefined /\ result' = OK)
       => LET p == call'.productId
              before == {r \in ImageSet(images) : r.productId = p}
              new == CHOOSE r \in ImageSet(images') : r.id = imageCurrentId'
              list == sortByDisplayOrder(imagesOf(images', p))
          IN /\ new \notin ImageSet(images)
             /\ new.productId = p
             /\ IF before = {} THEN new.displayOrder = 1
                ELSE /\ \E r \in before : new.displayOrder = r.displayOrder + 1
                     /\ \A r \in before : new.displayOrder > r.displayOrder
             /\ list[Len(list)] = new
             /\ \A i \in 1..(Len(list) - 1) :
                  list[i].displayOrder < new.displayOrder]_vars

\* An image was created without a displayOrder on a product whose highest
\* displayOrder had been raised to 5 by an update or a reorder.
C18_Witness ==
  /\ call.op = "imageCreate" /\ call.displayOrder = Undefined /\ result = OK
  /\ images[Len(images)].displayOrder = 6
  /\ \E r \in ImageSet(images) :
       /\ r.productId = call.productId
       /\ r.displayOrder = 5
       /\ r.dateCreated < StartTime

\* C19: productImageList(productId) returns exactly the stored images of the
\* product, in non-decreasing displayOrder, those of equal displayOrder in
\* insertion order (ascending id), also after an update or a reorder
\* changed their displayOrder.
C19_ListSorted ==
  (call.op = "imageList" /\ StoredProduct(call.productId))
    => /\ result = OK
       /\ {response[i] : i \in 1..Len(response)}
            = {r \in ImageSet(images) : r.productId = call.productId}
       /\ Len(response) = ImageCount(images, call.productId)
       /\ \A i, j \in 1..Len(response) :
            i < j => /\ response[i].displayOrder <= response[j].displayOrder
                     /\ response[i].displayOrder = response[j].displayOrder
                          => /\ response[i].id < response[j].id
                             /\ \E k, l \in 1..Len(images) :
                                  /\ k < l
                                  /\ images[k] = response[i]
                                  /\ images[l] = response[j]

\* A list was returned in which two images tie and one of the two got its
\* displayOrder from an update or a reorder.
C19_Witness ==
  /\ call.op = "imageList" /\ result = OK
  /\ \E i, j \in 1..Len(response) :
       /\ i < j
       /\ response[i].displayOrder = response[j].displayOrder
       /\ response[j].dateModified # response[j].dateCreated

\* C20: every operation that changes a field of a stored category or of a
\* stored product image sets that record's dateModified to the time of the
\* operation, the productCount changes of categoryAddProduct and
\* categoryRemoveProduct included.
C20_DateModifiedRefreshed ==
  [][/\ \A c \in DOMAIN records \cap DOMAIN records' :
          records'[c] # records[c] => records'[c].dateModified = now
     /\ \A r \in ImageSet(images') :
          (\E q \in ImageSet(images) : q.id = r.id /\ q # r)
            => r.dateModified = now]_vars


\* C21: the ids that categoryCreate and productImageCreate assign increase
\* strictly: every stored id is at most the store's counter, the counter never
\* goes down, and a create that succeeds stores its record under an id that is
\* above the counter (hence above every id the store ever held, deleted ones
\* included) and adds a record rather than replacing one.
C21_IdsIncrease ==
  [][ /\ \A id \in DOMAIN records : id <= currentId
      /\ \A id \in ImageSet(images) : id.id <= imageCurrentId
      /\ currentId' >= currentId
      /\ imageCurrentId' >= imageCurrentId
      /\ \A id \in DOMAIN records' \ DOMAIN records : id > currentId
      /\ \A img \in ImageSet(images') :
           img.id \notin {i.id : i \in ImageSet(images)} => img.id > imageCurrentId
      /\ (call'.op = "create" /\ result' = OK) =>
           /\ currentId' \in DOMAIN records' \ DOMAIN records
           /\ DOMAIN records \subseteq DOMAIN records'
      /\ (call'.op = "imageCreate" /\ result' = OK) =>
           /\ Len(images') = Len(images) + 1
           /\ \E img \in ImageSet(images') : img.id = imageCurrentId'
           /\ ImageSet(images) \subseteq ImageSet(images')
    ]_vars

\* A category and an image were created, both were deleted, and the next
\* create of each store has just succeeded.
C21_Witness ==
  /\ result = OK
  /\ call.op \in {"create", "imageCreate"}
  /\ \E id \in 1..currentId : id > Len(seedInitialData) /\ id \notin DOMAIN records
  /\ \E id \in 1..imageCurrentId :
       id > Len(sampleImages) /\ id \notin {i.id : i \in ImageSet(images)}

\* C22: service operations are atomic with respect to each other: of two
\* requests issued together, neither handler takes a step while the other is
\* between its store reads and its store writes, and when both have ended
\* the stores are what serving the two requests one after the other, in one
\* of the two orders, makes of the stores the pair found.
C22_Atomic ==
  call.op = "concurrent" =>
    /\ ~(call.pc[1] = "checked" /\ call.pc[2] = "checked")
    /\ \A i \in 1..2 : call.pc[i] = "checked" => call.running = i
    /\ call.pc = <<"done", "done">> =>
         LET a == call.requests[1]
             b == call.requests[2]
         IN storeOf(records, slugIndex, images)
              \in { serve(serve(call.before, a, now), b, now),
                    serve(serve(call.before, b, now), a, now) }

\* Both handlers of a pair have ended, the two serial orders differ, and the
\* pair was issued when product 1 had two images left and asks to delete both.
C22_Witness ==
  /\ call.op = "concurrent"
  /\ call.pc = <<"done", "done">>
  /\ Len(imagesOf(call.before.images, 1)) = 2
  /\ call.requests[1].op = "imageDelete"
  /\ call.requests[2].op = "imageDelete"
  /\ call.requests[1] # call.requests[2]
  /\ Len(imagesOf(images, 1)) = 1
  /\ serve(serve(call.before, call.requests[1], now), call.requests[2], now)
       # serve(serve(call.before, call.requests[2], now), call.requests[1], now)

\* C23: in every reachable state the slug of every stored category is
\* generateSlug of its current name: the seeded slugs are, categoryCreate
\* stores the generated slug and categoryUpdate regenerates it.
C23_SlugFollowsName ==
  \A c \in DOMAIN records : records[c].slug = generateSlug(records[c].name)

\* An update has just given a seeded category another name.
C23_Witness ==
  /\ call.op = "update"
  /\ result = OK
  /\ call.id \in 1..Len(seedInitialData)
  /\ records[call.id].name = call.name
  /\ call.name # seedInitialData[call.id].name

\* ---------------------------------------------------------------- slug shape

\* The name in lower case with its accents removed: what is left of it
\* before any hyphen is put in.
Folded(name) == StripCombining(NormalizeNFD(ToLowerCase(name)))

\* The position in s of its k-th character that is (keep = TRUE) or is not
\* (keep = FALSE) in the set chars.
NthPosition(s, chars, keep, k) ==
  CHOOSE i \in 1..Len(s) :
    /\ (s[i] \in chars) = keep
    /\ Cardinality({j \in 1..i : (s[j] \in chars) = keep}) = k

\* C24: generateSlug(name) contains only characters of [a-z0-9-], neither
\* starts nor ends with a hyphen and has no two hyphens side by side; its
\* letters and digits are those of the name (in lower case, accents removed),
\* in order, and two of them that follow each other are separated by exactly
\* one hyphen when other characters stood between them in the name, and by
\* nothing when none did.
C24_SlugShape ==
  call.op = "generateSlug" =>
    LET slug == response
        folded == Folded(call.name)
        letters == SelectSeq(folded, LAMBDA c : c \in LowerAlnum)
    IN /\ \A i \in 1..Len(slug) : slug[i] \in LowerAlnum \cup {"-"}
       /\ slug # <<>> => slug[1] # "-" /\ slug[Len(slug)] # "-"
       /\ \A i \in 1..(Len(slug) - 1) : ~(slug[i] = "-" /\ slug[i + 1] = "-")
       /\ SelectSeq(slug, LAMBDA c : c # "-") = letters
       /\ \A k \in 1..(Len(letters) - 1) :
            LET inName == NthPosition(folded, LowerAlnum, TRUE, k + 1)
                            - NthPosition(folded, LowerAlnum, TRUE, k)
                inSlug == NthPosition(slug, {"-"}, FALSE, k + 1)
                            - NthPosition(slug, {"-"}, FALSE, k)
            IN inSlug = IF inName > 1 THEN 2 ELSE 1

\* The slug of a name that starts with a symbol and has a run of two other
\* characters between two letters.
C24_Witness ==
  /\ call.op = "generateSlug"
  /\ call.name = <<"!", "A", " ", "-", "b">> \/ call.name = <<"A", " ", "-", "b">>
  /\ response = <<"a", "-", "b">>

\* ---------------------------------------------------------------- cycle walk

\* C25: validateNoCycle terminates for every categoryId and parentId on every
\* store content, also when the stored parentId links form a cycle or name a
\* category that is not stored: the call returns or throws.
C25_WalkTerminates == <>(call.pc = "done" /\ result \in {OK, BUSINESS_RULE_ERROR})

\* The walk has ended on its second visit to a category, in a store whose
\* links form a cycle that does not hold categoryId.
C25_Witness ==
  /\ call.op = "validateNoCycle"
  /\ call.pc = "done"
  /\ result = BUSINESS_RULE_ERROR
  /\ call.currentParentId \in call.visited
  /\ call.categoryId \notin call.visited
  /\ call.currentParentId \in Ancestors(records, call.currentParentId)

\* ---------------------------------------------------------------- slug index

\* C26: the slug index agrees with the records: for every slug s that a
\* request may carry (any non-empty one), categoryGetBySlug(s) finds a
\* category exactly when some stored category has slug s, and the category
\* found has slug s.
C26_SlugIndexAgrees ==
  \A s \in (DOMAIN slugIndex \cup {records[c].slug : c \in DOMAIN records}) \ {<<>>} :
    /\ (getBySlug(records, slugIndex, s) # {}) <=>
         (\E c \in DOMAIN records : records[c].slug = s)
    /\ \A found \in getBySlug(records, slugIndex, s) : found.slug = s

\* ------------------------------------------------------------- parent links

\* C27: in every reachable state the parentId of every stored category is
\* null or the id of a stored category.
C27_ParentStored ==
  \A c \in DOMAIN records :
    records[c].parentId = Null \/ records[c].parentId \in DOMAIN records

\* A seeded category was moved under another one by an update, and the
\* delete of its new parent has just been rejected.
C27_Witness ==
  /\ call.op = "delete"
  /\ result = BUSINESS_RULE_ERROR
  /\ call.id \in DOMAIN records
  /\ \E c \in 1..Len(seedInitialData) :
       c \in DOMAIN records /\ records[c].parentId = call.id

\* ------------------------------------------------------------ failed calls

\* C28: a categoryCreate, categoryUpdate, categoryDelete, categoryAddProduct
\* or categoryRemoveProduct call that ends in VALIDATION_ERROR,
\* BUSINESS_RULE_ERROR or NOT_FOUND leaves the category records and the slug
\* index as they were before the call.
C28_FailedCallWritesNothing ==
  [][ ( /\ call'.op \in {"create", "update", "delete", "addProduct", "removeProduct"}
        /\ result' \in {VALIDATION_ERROR, BUSINESS_RULE_ERROR, NOT_FOUND} )
      => records' = records /\ slugIndex' = slugIndex ]_vars

\* After a mutation that succeeded, a create or an update has just been
\* rejected because another category holds the slug of the name it carries.
C28_Witness ==
  /\ ops >= 1
  /\ call.op \in {"create", "update"}
  /\ result = BUSINESS_RULE_ERROR
  /\ \E c \in DOMAIN records \ {call.id} : records[c].slug = generateSlug(call.name)

\* ---------------------------------------------------------------- all pages

\* The items of page p of the list that query q asks for.
PageItems(q, p) == productListResponse(productGetAll, [q EXCEPT !.page = p]).items

\* The item lists of pages 1..n, in page order.
RECURSIVE PageLists(_, _)
PageLists(q, n) ==
  IF n = 0 THEN <<>> ELSE Append(PageLists(q, n - 1), PageItems(q, n))

\* The lists of a sequence of lists, one after the other.
RECURSIVE Concatenated(_)
Concatenated(lists) ==
  IF lists = <<>> THEN <<>> ELSE Head(lists) \o Concatenated(Tail(lists))

\* C29: for the store, filter, sort key and page size of a list request, the
\* item lists of pages 1..totalPages, one after the other, are the whole
\* sorted filtered list (so every product that passes the filter is on
\* exactly one page); each of these pages holds an item, and each but the
\* last holds pageSize items. The pages do not depend on the page that the
\* request asks for: they are taken from the requests that name none.
C29_PagesPartition ==
  (call.op = "productList" /\ GoodQuery(call.query) /\ call.query.page = Undefined)
    => \A pages \in {PageLists(call.query, response.totalPages)} :
       \A all \in {Concatenated(pages)} :
         /\ \A sorted \in {sortProducts(filterProducts(productGetAll, call.query),
                                         QuerySortBy(call.query))} :
              all = [i \in 1..Len(sorted) |-> ListItem(sorted[i])]
         /\ \A k \in Passing(call.query) :
              Cardinality({i \in 1..Len(all) : all[i].id = productGetAll[k].id}) = 1
         /\ \A p \in 1..Len(pages) :
              /\ pages[p] # <<>>
              /\ p < Len(pages) => Len(pages[p]) = QueryPageSize(call.query)

\* A list of two pages was asked for, the last one shorter than the first,
\* over a store that holds a product added after the seed.
C29_Witness ==
  /\ call.op = "productList" /\ result = OK
  /\ call.query.page = Undefined
  /\ products # <<>>
  /\ response.totalPages = 2
  /\ response.total < 2 * response.pageSize
  /\ response.page = 1
  /\ Len(response.items) = response.pageSize

\* ------------------------------------------------------------- category menu

\* C30: when a category is chosen in the catalog's category menu, the list
\* that the catalog page gets holds exactly the products whose category
\* label is the name of the chosen category (the first page of them, in the
\* page's default order).
C30_MenuListsCategory ==
  call.op = "categorySelect" =>
    LET name == records[call.id].name
        labelled == {k \in 1..Len(productGetAll) : productGetAll[k].category = name}
    IN /\ result = OK
       /\ response.total = Cardinality(labelled)
       /\ \A i \in 1..Len(response.items) :
            \E k \in labelled : productGetAll[k].id = response.items[i].id
       /\ Len(response.items) = Min(Cardinality(labelled), response.pageSize)
====
